---- MODULE Spec2Model ----
(***************************************************************************)
(* Model of the KYC attestation verifier of coda-protocol/kyc-attestations *)
(* (sdk/src/sdk/verifier.ts): one call of CodaKyc.verifyKycStatus against  *)
(* a ledger that answers getOwnedObjects and devInspectTransactionBlock.   *)
(***************************************************************************)
EXTENDS Integers, Sequences, FiniteSets, TLC

(***************************************************************************)
(* Bounds of the model.                                                    *)
(***************************************************************************)
\* largest number of records one getOwnedObjects answer carries
MaxRecords == 3
\* largest enum index a devInspect answer carries (0..2 are the known ones)
MaxTag == 3

(***************************************************************************)
(* Constants of the program.                                               *)
(***************************************************************************)
KycAttestationType == "PACKAGE_ID::core::KycAttestation"
KycEffectiveStatusType == "PACKAGE_ID::core::KycEffectiveStatus"

\* KycVerificationStatus (types.ts)
Verified == "Verified"
NotVerified == "NotVerified"
Expired == "Expired"
Revoked == "Revoked"
Invalid == "Invalid"
Error == "Error"
KycVerificationStatus == {Verified, NotVerified, Expired, Revoked, Invalid, Error}

(***************************************************************************)
(* The ledger's answers: the inputs of a call.                             *)
(***************************************************************************)
\* the address verifyKycStatus is called with, and another address
Subject == "0xA"
Stranger == "0xB"

\* a record of res.data as the loop reads it: obj.data present or not,
\* content.dataType, content.type, owner (an address for AddressOwner,
\* "Shared" for any owner that is not a single address) and content.fields
RawRecord(id, hasData, dataType, type, owner, recipient) ==
    [ hasData |-> hasData, objectId |-> id, dataType |-> dataType,
      type |-> type, owner |-> owner, recipient |-> recipient,
      issuer |-> "0x1", issuance_timestamp_ms |-> 1,
      expiry_timestamp_ms |-> 0, statusVariant |-> "undefined" ]

\* the records an enumeration may carry at position id
RawRecords(id) ==
    { RawRecord(id, TRUE, "moveObject", KycAttestationType, Subject, r) :
        r \in {Subject, Stranger} }
    \cup
    { RawRecord(id, FALSE, "moveObject", KycAttestationType, Subject, Subject),
      RawRecord(id, TRUE, "package", KycAttestationType, Subject, Subject),
      RawRecord(id, TRUE, "moveObject", "0x2::coin::Coin", Subject, Subject),
      RawRecord(id, TRUE, "moveObject", KycAttestationType, "Shared", Subject) }

\* an answer of devInspectTransactionBlock: the call itself throws
\* (transport), effects.status.status, results[0].returnValues[0] present
\* or not, its declared type and its bytes
Reply(transportOk, status, hasReturn, type, bytes) ==
    [ transportOk |-> transportOk, status |-> status, hasReturn |-> hasReturn,
      type |-> type, bytes |-> bytes ]

Replies ==
    { Reply(FALSE, "success", TRUE, KycEffectiveStatusType, <<0>>),
      Reply(TRUE, "failure", TRUE, KycEffectiveStatusType, <<0>>),
      Reply(TRUE, "success", FALSE, KycEffectiveStatusType, <<0>>),
      Reply(TRUE, "success", TRUE, "u8", <<0>>),
      Reply(TRUE, "success", TRUE, KycEffectiveStatusType, <<>>) }
    \cup
    { Reply(TRUE, "success", TRUE, KycEffectiveStatusType, <<t>>) :
        t \in 0..MaxTag }

\* the record passes the structure checks of the loop (lines 133-137, 153-157)
IsCandidate(obj) ==
    /\ obj.hasData
    /\ obj.dataType = "moveObject"
    /\ obj.type = KycAttestationType
    /\ obj.owner # "Shared"

(***************************************************************************)
(* The state.                                                              *)
(***************************************************************************)
VARIABLES
    listFails,   \* getOwnedObjects throws for this subject
    data,        \* res.data: the records getOwnedObjects returns, in order
    inspect,     \* objectId -> the answer devInspect gives for that object
    pc,          \* "ready", "loop", "returned" (resolved) or "thrown" (rejected)
    idx,         \* position of the loop in res.data
    result,      \* the running best result, and the returned one at the end
    listCalls,   \* number of getOwnedObjects calls issued
    queried,     \* objectIds checkStatus was called with, in order
    outcomes     \* per-candidate outcomes, [objectId, status], in order

sdkVars == <<listFails, data, inspect, pc, idx, result, listCalls, queried, outcomes>>

\* the status decoders taken alone
VARIABLES
    decIn,       \* <<answer>>: the devInspect answer handed to the decoders
    decOut       \* <<>> before decoding, <<[sdk, web]>> the two decoders' results

decoderVars == <<decIn, decOut>>

\* the ledger: the objects of module coda_kyc::attestation (sources/kyc.move)
VARIABLES
    issuers,       \* keys of IssuerRegistry.issuers
    attestations,  \* the KycAttestation objects created so far, by object id
    revocations,   \* RevocationRegistry.revoked_attestations: id -> timestamp
    owners,        \* the owner the ledger records for each attestation
    clock,         \* Clock.timestamp_ms
    tx             \* the last transaction: entry function, sender, abort code

ledgerVars == <<issuers, attestations, owners, revocations, clock, tx>>

\* the web API handler (web/pages/api/kyc/verify.ts)
VARIABLES
    address,     \* req.body.address
    httpStatus   \* status code of the response, 0 while none is sent

httpVars == <<address, httpStatus>>

\* the issuer cache of SynthVerifier
VARIABLES
    authorizedIssuers,    \* <<>> for null, <<S>> for the set S
    lastIssuerFetchTime,
    now,                  \* Date.now()
    calls,                \* the calls of fetchAuthorizedIssuers, by caller
    getObjectCalls        \* number of client.getObject calls issued

cacheVars == <<authorizedIssuers, lastIssuerFetchTime, now, calls, getObjectCalls>>

vars == <<sdkVars, decoderVars, ledgerVars, httpVars, cacheVars>>

(***************************************************************************)
(* checkStatus (lines 50-101): the decoder of the devInspect answer.       *)
(***************************************************************************)
\* what checkStatus does with its answer: a string returned, or a throw
Returned(value) == [ threw |-> FALSE, value |-> value ]
Thrown(message) == [ threw |-> TRUE, value |-> message ]

\* an unrecognised enum index read as Active instead of rejected
checkStatus_DefaultActive(reply) ==
    IF ~reply.transportOk THEN Thrown("Error checking attestation status")
    ELSE IF reply.status # "success" THEN Thrown("Error checking attestation status")
    ELSE IF ~reply.hasReturn THEN Thrown("Error checking attestation status")
    ELSE IF reply.type # KycEffectiveStatusType THEN Thrown("Error checking attestation status")
    ELSE LET statusIndex == IF Len(reply.bytes) > 0 THEN reply.bytes[1] ELSE -1
         IN  IF statusIndex = 1 THEN Returned("Expired")
             ELSE IF statusIndex = 2 THEN Returned("Revoked")
             ELSE Returned("Active")

checkStatus(reply) ==
    IF ~reply.transportOk THEN Thrown("Error checking attestation status")
    ELSE IF reply.status # "success" THEN Thrown("Error checking attestation status")
    ELSE IF ~reply.hasReturn THEN Thrown("Error checking attestation status")
    ELSE IF reply.type # KycEffectiveStatusType THEN Thrown("Error checking attestation status")
    ELSE LET statusIndex == IF Len(reply.bytes) > 0 THEN reply.bytes[1] ELSE -1
         IN  IF statusIndex = 0 THEN Returned("Active")
             ELSE IF statusIndex = 1 THEN Returned("Expired")
             ELSE IF statusIndex = 2 THEN Returned("Revoked")
             ELSE Thrown("Error checking attestation status")

(***************************************************************************)
(* The results verifyKycStatus builds.  details is the message, the        *)
(* objectId interpolated into it (0 when none) and the other interpolated  *)
(* text; attestation is <<>> when the block is absent, <<a>> when it is a. *)
(***************************************************************************)
KycVerificationResult(status, details, attestation) ==
    [ status |-> status, details |-> details, attestation |-> attestation ]

\* the placeholder answer in place of the empty-enumeration answer
NoAttestationsResult_Placeholder ==
    KycVerificationResult("Verified", <<"KYC verified.", 0, "">>, <<>>)

\* lines 119-122
NoAttestationsResult ==
    KycVerificationResult(NotVerified,
        <<"No KYC attestations found for this address.", 0, "">>, <<>>)

\* lines 125-129
InitialResult ==
    KycVerificationResult(NotVerified,
        <<"No valid KYC attestation found from an authorized issuer.", 0, "">>, <<>>)

\* currentOwner is filled from the recipient field of the record
attestationDetails_OwnerFromRecipient(obj) ==
    [ objectId |-> obj.objectId,
      issuer |-> obj.issuer,
      recipient |-> obj.recipient,
      currentOwner |-> obj.recipient,
      issuedAt |-> obj.issuance_timestamp_ms,
      expiresAt |-> IF obj.expiry_timestamp_ms > 0
                    THEN <<obj.expiry_timestamp_ms>> ELSE <<>>,
      statusRaw |-> IF obj.statusVariant = "Active" THEN "Active" ELSE "Revoked" ]

\* lines 167-181
attestationDetails(obj) ==
    [ objectId |-> obj.objectId,
      issuer |-> obj.issuer,
      recipient |-> obj.recipient,
      currentOwner |-> obj.owner,
      issuedAt |-> obj.issuance_timestamp_ms,
      expiresAt |-> IF obj.expiry_timestamp_ms > 0
                    THEN <<obj.expiry_timestamp_ms>> ELSE <<>>,
      statusRaw |-> IF obj.statusVariant = "Active" THEN "Active" ELSE "Revoked" ]

\* lines 261-268
statusPriority(status) ==
    CASE status = Verified -> 5
      [] status = Expired -> 4
      [] status = Revoked -> 3
      [] status = Invalid -> 2
      [] status = NotVerified -> 1
      [] status = Error -> 0

\* the ownership check left out
OwnershipMismatch_Omitted(currentOwner, recipient) == FALSE

\* line 185
OwnershipMismatch(currentOwner, recipient) == currentOwner # recipient

(***************************************************************************)
(* One iteration of the loop over res.data (lines 131-276).  A step tells  *)
(* the new running best result, whether the function returns from inside   *)
(* the loop, whether checkStatus was called and the candidate's outcome    *)
(* (<<>> when the record produced none).                                   *)
(***************************************************************************)
LoopStep(best, return, query, outcome) ==
    [ result |-> best, return |-> return, query |-> query, outcome |-> outcome ]

\* lines 138-142 and 160-164: continue
SkipRecord(best) == LoopStep(best, FALSE, FALSE, <<>>)

\* the Invalid result built without its attestation block
OnOwnerMismatch_NoBlock(best, att) ==
    LoopStep(
        IF best.status = NotVerified
        THEN KycVerificationResult(Invalid,
                <<"Attestation object owner does not match intended recipient.",
                  att.objectId, "">>, <<>>)
        ELSE best,
        FALSE, FALSE, <<Invalid>>)

\* the mismatch replaces the running best result whatever it is
OnOwnerMismatch_Unguarded(best, att) ==
    LoopStep(
        KycVerificationResult(Invalid,
            <<"Attestation object owner does not match intended recipient.",
              att.objectId, "">>, <<att>>),
        FALSE, FALSE, <<Invalid>>)

\* a record held by another address than its recipient is passed over
OnOwnerMismatch_Skipped(best, att) == LoopStep(best, FALSE, FALSE, <<>>)

\* lines 185-199
OnOwnerMismatch(best, att) ==
    LoopStep(
        IF best.status = NotVerified
        THEN KycVerificationResult(Invalid,
                <<"Attestation object owner does not match intended recipient.",
                  att.objectId, "">>, <<att>>)
        ELSE best,
        FALSE, FALSE, <<Invalid>>)

\* the failed query ends the scan instead of continuing it
OnStatusQueryFailure_Abort(best, objectId) ==
    LoopStep(
        KycVerificationResult(Error,
            <<"Failed to query on-chain status for attestation.", objectId, "">>, <<>>),
        TRUE, TRUE, <<Error>>)

\* the failed query merged by strict priority, as any other outcome
OnStatusQueryFailure_ByPriority(best, objectId) ==
    LoopStep(
        IF statusPriority(Error) > statusPriority(best.status)
        THEN KycVerificationResult(Error,
                <<"Failed to query on-chain status for attestation.", objectId, "">>, <<>>)
        ELSE best,
        FALSE, TRUE, <<Error>>)

\* the failed query makes the call return what it has found so far
OnStatusQueryFailure_Return(best, objectId) ==
    LoopStep(
        IF best.status = NotVerified
        THEN KycVerificationResult(Error,
                <<"Failed to query on-chain status for attestation.", objectId, "">>, <<>>)
        ELSE best,
        TRUE, TRUE, <<Error>>)

\* lines 205-218
OnStatusQueryFailure(best, objectId) ==
    LoopStep(
        IF best.status = NotVerified
        THEN KycVerificationResult(Error,
                <<"Failed to query on-chain status for attestation.", objectId, "">>, <<>>)
        ELSE best,
        FALSE, TRUE, <<Error>>)

\* lines 232-245
OnUnknownStatus(best, objectId) ==
    LoopStep(
        IF best.status = NotVerified
        THEN KycVerificationResult(Error,
                <<"Received unknown effective status.", objectId, "">>, <<>>)
        ELSE best,
        FALSE, TRUE, <<Error>>)

\* lines 222-231
MapStatus(effectiveStatusStr) ==
    CASE effectiveStatusStr = "Active" -> Verified
      [] effectiveStatusStr = "Expired" -> Expired
      [] effectiveStatusStr = "Revoked" -> Revoked
      [] OTHER -> Error

\* a Verified candidate is merged like any other and the scan goes on
OnStatus_NoShortCircuit(best, currentStatus, att) ==
    LET currentResult ==
            KycVerificationResult(currentStatus,
                <<"Attestation: Status is", att.objectId, currentStatus>>, <<att>>)
    IN  LoopStep(
            IF statusPriority(currentResult.status) > statusPriority(best.status)
            THEN currentResult ELSE best,
            FALSE, TRUE, <<currentStatus>>)

\* a candidate of equal priority replaces the running best result
OnStatus_LastWins(best, currentStatus, att) ==
    LET currentResult ==
            KycVerificationResult(currentStatus,
                <<"Attestation: Status is", att.objectId, currentStatus>>, <<att>>)
    IN  IF currentResult.status = Verified
        THEN LoopStep(currentResult, TRUE, TRUE, <<currentStatus>>)
        ELSE LoopStep(
                IF statusPriority(currentResult.status) >= statusPriority(best.status)
                THEN currentResult ELSE best,
                FALSE, TRUE, <<currentStatus>>)

\* the status flag stored in the record overrules an Active answer
OnStatus_TrustsStatusRaw(best, currentStatus, att) ==
    LET status == IF currentStatus = Verified /\ att.statusRaw = "Revoked"
                  THEN Revoked ELSE currentStatus
        currentResult ==
            KycVerificationResult(status,
                <<"Attestation: Status is", att.objectId, status>>, <<att>>)
    IN  IF currentResult.status = Verified
        THEN LoopStep(currentResult, TRUE, TRUE, <<status>>)
        ELSE LoopStep(
                IF statusPriority(currentResult.status) > statusPriority(best.status)
                THEN currentResult ELSE best,
                FALSE, TRUE, <<status>>)

\* lines 248-275
OnStatus(best, currentStatus, att) ==
    LET currentResult ==
            KycVerificationResult(currentStatus,
                <<"Attestation: Status is", att.objectId, currentStatus>>, <<att>>)
    IN  IF currentResult.status = Verified
        THEN LoopStep(currentResult, TRUE, TRUE, <<currentStatus>>)
        ELSE LoopStep(
                IF statusPriority(currentResult.status) > statusPriority(best.status)
                THEN currentResult ELSE best,
                FALSE, TRUE, <<currentStatus>>)

\* the declared type of the content is not compared with kycAttestationType
LoopBody_NoTypeCheck(best, obj, reply) ==
    IF ~obj.hasData \/ obj.dataType # "moveObject"
    THEN SkipRecord(best)
    ELSE IF obj.owner = "Shared"
    THEN SkipRecord(best)
    ELSE LET att == attestationDetails(obj) IN
         IF OwnershipMismatch(att.currentOwner, att.recipient)
         THEN OnOwnerMismatch(best, att)
         ELSE LET effectiveStatus == checkStatus(reply) IN
              IF effectiveStatus.threw
              THEN OnStatusQueryFailure(best, obj.objectId)
              ELSE IF MapStatus(effectiveStatus.value) = Error
              THEN OnUnknownStatus(best, obj.objectId)
              ELSE OnStatus(best, MapStatus(effectiveStatus.value), att)

\* lines 131-276, for the record obj and the answer devInspect gives for it
LoopBody(best, obj, reply) ==
    IF ~obj.hasData \/ obj.dataType # "moveObject" \/ obj.type # KycAttestationType
    THEN SkipRecord(best)
    ELSE IF obj.owner = "Shared"
    THEN SkipRecord(best)
    ELSE LET att == attestationDetails(obj) IN
         IF OwnershipMismatch(att.currentOwner, att.recipient)
         THEN OnOwnerMismatch(best, att)
         ELSE LET effectiveStatus == checkStatus(reply) IN
              IF effectiveStatus.threw
              THEN OnStatusQueryFailure(best, obj.objectId)
              ELSE IF MapStatus(effectiveStatus.value) = Error
              THEN OnUnknownStatus(best, obj.objectId)
              ELSE OnStatus(best, MapStatus(effectiveStatus.value), att)

\* the catch answers as if nothing had been found
OuterCatch_Swallow(error) ==
    [ pc |-> "returned",
      result |-> KycVerificationResult(NotVerified,
                    <<"No KYC attestations found for this address.", 0, "">>, <<>>) ]

\* no catch: the failure leaves the function
OuterCatch_Rethrow(error) ==
    [ pc |-> "thrown",
      result |-> KycVerificationResult(Error, <<"SDK Error:", 0, error>>, <<>>) ]

\* lines 279-288: the catch around the whole body
OuterCatch(error) ==
    [ pc |-> "returned",
      result |-> KycVerificationResult(Error, <<"SDK Error:", 0, error>>, <<>>) ]

(***************************************************************************)
(* The call as a function of the enumeration: the loop run to its end.     *)
(***************************************************************************)
RECURSIVE ScanFrom(_, _, _, _)
ScanFrom(best, records, answers, i) ==
    IF i > Len(records) THEN best
    ELSE LET step == LoopBody(best, records[i], answers[records[i].objectId])
         IN  IF step.return THEN step.result
             ELSE ScanFrom(step.result, records, answers, i + 1)

\* lines 110-289 for an enumeration that succeeded with records
verifyKycStatus(records, answers) ==
    IF Len(records) = 0 THEN NoAttestationsResult
    ELSE ScanFrom(InitialResult, records, answers, 1)

(***************************************************************************)
(* Initial state: the client is constructed, the ledger holds its records, *)
(* no call has been made.                                                  *)
(***************************************************************************)
\* the enumerations of n records: position i carries objectId i
Enumerations(n) ==
    { d \in [1..n -> UNION { RawRecords(i) : i \in 1..n }] :
        \A i \in 1..n : d[i].objectId = i }

\* the well-formed answer carrying enum index t
TagReply(t) == Reply(TRUE, "success", TRUE, KycEffectiveStatusType, <<t>>)

\* the answers the ledger holds for the records of d: any answer for an
\* owner-matched candidate; Active or Revoked for a candidate moved away
\* from its recipient; Active for a record that is no candidate
AnswersFor(d) ==
    { a \in [1..Len(d) -> Replies] :
        \A i \in 1..Len(d) :
            /\ ~IsCandidate(d[i]) => a[i] = TagReply(0)
            /\ (IsCandidate(d[i]) /\ d[i].owner # d[i].recipient) =>
                    a[i] \in {TagReply(0), TagReply(2)} }

\* no answer has been handed to the decoders
DecoderIdle == decIn = <<>> /\ decOut = <<>>

\* the ledger right after init (kyc.move lines 116-130): both registries empty
Tx(fn, sender, abort) == [ fn |-> fn, sender |-> sender, abort |-> abort ]

NoTx == Tx("init", "0xAb", 0)

LedgerIdle ==
    /\ issuers = {}
    /\ attestations = <<>>
    /\ owners = <<>>
    /\ revocations = <<>>
    /\ clock = 0
    /\ tx = NoTx

\* req.body.address: absent, or a string given by its characters after the
\* optional 0x prefix
Undefined == [ defined |-> FALSE, text |-> <<>> ]

\* no request has reached the web handler
HttpIdle == address = Undefined /\ httpStatus = 0

\* the SynthVerifier right after construction (part_003 lines 31-33)
CacheIdle ==
    /\ authorizedIssuers = <<>>
    /\ lastIssuerFetchTime = 0
    /\ now = 0
    /\ calls = <<>>
    /\ getObjectCalls = 0

Init ==
    /\ DecoderIdle /\ LedgerIdle /\ HttpIdle /\ CacheIdle
    /\ listFails \in BOOLEAN
    /\ \E n \in 0..MaxRecords : data \in Enumerations(n)
    /\ listFails => data = <<>>
    /\ inspect \in AnswersFor(data)
    /\ pc = "ready"
    /\ idx = 0
    /\ result = InitialResult
    /\ listCalls = 0
    /\ queried = <<>>
    /\ outcomes = <<>>

(***************************************************************************)
(* Actions.                                                                *)
(***************************************************************************)
\* what getOwnedObjects throws when it fails
ListError == "TransportError: getOwnedObjects failed"

\* lines 110-129: the call starts and awaits getOwnedObjects
Enumerate ==
    /\ pc = "ready"
    /\ listCalls' = listCalls + 1
    /\ IF listFails
       THEN /\ pc' = OuterCatch(ListError).pc
            /\ result' = OuterCatch(ListError).result
            /\ idx' = idx
       ELSE IF Len(data) = 0
       THEN /\ pc' = "returned"
            /\ result' = NoAttestationsResult
            /\ idx' = idx
       ELSE /\ pc' = "loop"
            /\ result' = InitialResult
            /\ idx' = 1
    /\ UNCHANGED <<listFails, data, inspect, queried, outcomes>>
    /\ UNCHANGED <<decoderVars, ledgerVars, httpVars, cacheVars>>

\* a failed status query is tried once more before the scan moves on
ScanRecord_RetryOnce ==
    /\ pc = "loop"
    /\ idx <= Len(data)
    /\ LET obj == data[idx]
           step == LoopBody(result, obj, inspect[obj.objectId])
           retry == /\ step.query /\ ~step.return
                    /\ step.outcome = <<Error>>
                    /\ (Len(queried) = 0 \/ queried[Len(queried)] # obj.objectId)
       IN  /\ result' = step.result
           /\ queried' = IF step.query THEN Append(queried, obj.objectId) ELSE queried
           /\ outcomes' = IF Len(step.outcome) > 0
                          THEN Append(outcomes, [objectId |-> obj.objectId,
                                                 status |-> step.outcome[1]])
                          ELSE outcomes
           /\ pc' = IF step.return THEN "returned" ELSE "loop"
           /\ idx' = IF step.return \/ retry THEN idx ELSE idx + 1
    /\ UNCHANGED <<listFails, data, inspect, listCalls>>
    /\ UNCHANGED <<decoderVars, ledgerVars, httpVars, cacheVars>>

\* lines 131-276: one iteration of the loop, its status query included
ScanRecord ==
    /\ pc = "loop"
    /\ idx <= Len(data)
    /\ LET obj == data[idx]
           step == LoopBody(result, obj, inspect[obj.objectId])
       IN  /\ result' = step.result
           /\ queried' = IF step.query THEN Append(queried, obj.objectId) ELSE queried
           /\ outcomes' = IF Len(step.outcome) > 0
                          THEN Append(outcomes, [objectId |-> obj.objectId,
                                                 status |-> step.outcome[1]])
                          ELSE outcomes
           /\ pc' = IF step.return THEN "returned" ELSE "loop"
           /\ idx' = IF step.return THEN idx ELSE idx + 1
    /\ UNCHANGED <<listFails, data, inspect, listCalls>>
    /\ UNCHANGED <<decoderVars, ledgerVars, httpVars, cacheVars>>

\* line 278: the loop is over, the running best result is returned
ReturnBest ==
    /\ pc = "loop"
    /\ idx > Len(data)
    /\ pc' = "returned"
    /\ UNCHANGED <<listFails, data, inspect, idx, result, listCalls, queried, outcomes>>
    /\ UNCHANGED <<decoderVars, ledgerVars, httpVars, cacheVars>>

Next == Enumerate \/ ScanRecord \/ ReturnBest

Spec == Init /\ [][Next]_vars

\* the event loop runs every continuation that is ready
LiveSpec == Spec /\ WF_vars(Next)

TypeOK ==
    /\ pc \in {"ready", "loop", "returned", "thrown"}
    /\ result.status \in KycVerificationStatus
    /\ idx \in 0..(Len(data) + 1)

(***************************************************************************)
(* Vocabulary of the properties, stated on the inputs and on the history   *)
(* of the call.                                                            *)
(***************************************************************************)
Done == pc = "returned"

Positions == 1..Len(data)

\* the answer for a record carries enum index t in a well-formed way
DecodesTo(reply, t) ==
    /\ reply.transportOk
    /\ reply.status = "success"
    /\ reply.hasReturn
    /\ reply.type = KycEffectiveStatusType
    /\ Len(reply.bytes) > 0
    /\ reply.bytes[1] = t

QueryFails(reply) == \A t \in 0..2 : ~DecodesTo(reply, t)

OwnerMatched(obj) == IsCandidate(obj) /\ obj.owner = obj.recipient
OwnerMismatched(obj) == IsCandidate(obj) /\ obj.owner # obj.recipient

\* positions of the candidates that evaluate to index t
Evaluating(t) ==
    { i \in Positions : OwnerMatched(data[i]) /\ DecodesTo(inspect[data[i].objectId], t) }

Outcomes == { outcomes[k].status : k \in 1..Len(outcomes) }

SetMax(S) == CHOOSE m \in S : \A x \in S : x <= m
SetMin(S) == CHOOSE m \in S : \A x \in S : m <= x

\* the enumeration read in the order p
Permute(records, p) == [ i \in 1..Len(records) |-> records[p[i]] ]

ScanOrders == Permutations(Positions)

(***************************************************************************)
(* C1 - order-independence: whatever the order in which the records are   *)
(* enumerated, the returned status is the same.                            *)
(***************************************************************************)
C1_OrderIndependence ==
    (Done /\ ~listFails) =>
        \A p \in ScanOrders :
            verifyKycStatus(Permute(data, p), inspect).status = result.status

(***************************************************************************)
(* C2 - monotonic merge: when the enumeration succeeds and at least one    *)
(* candidate produced an outcome, the priority of the returned status is   *)
(* the maximum priority among the outcomes produced in the call.           *)
(***************************************************************************)
C2_MonotonicMerge ==
    (Done /\ ~listFails /\ Outcomes # {}) =>
        statusPriority(result.status) =
            SetMax({ statusPriority(o) : o \in Outcomes })

(***************************************************************************)
(* C3 - Error never masks a more certain finding: when some candidate      *)
(* produced Verified, Expired, Revoked or Invalid, the returned status is  *)
(* not Error.                                                              *)
(***************************************************************************)
C3_ErrorNeverMasks ==
    (Done /\ ~listFails /\ Outcomes \cap {Verified, Expired, Revoked, Invalid} # {}) =>
        result.status # Error

(***************************************************************************)
(* C4 - short-circuit correctness: when some owner-matched candidate       *)
(* evaluates to Active, the call returns Verified with the objectId of the *)
(* first such candidate in scan order, whatever the other candidates are.  *)
(***************************************************************************)
C4_ShortCircuit ==
    (Done /\ ~listFails /\ Evaluating(0) # {}) =>
        /\ result.status = Verified
        /\ Len(result.attestation) = 1
        /\ result.attestation[1].objectId = data[SetMin(Evaluating(0))].objectId

\* an Active candidate found after a failed query and an owner mismatch
C4_Witness ==
    /\ Done /\ ~listFails
    /\ Evaluating(0) # {}
    /\ SetMin(Evaluating(0)) = 3
    /\ Outcomes = {Error, Invalid, Verified}
    /\ result.status = Verified

(***************************************************************************)
(* C5 - ownership binding: a candidate whose owner differs from its        *)
(* recipient gets no status query, produces no outcome but Invalid, and is *)
(* never attached to a Verified, Expired or Revoked result.                *)
(***************************************************************************)
C5_OwnershipBinding ==
    \A i \in Positions :
        OwnerMismatched(data[i]) =>
            /\ \A k \in 1..Len(queried) : queried[k] # data[i].objectId
            /\ \A k \in 1..Len(outcomes) :
                  outcomes[k].objectId = data[i].objectId => outcomes[k].status = Invalid
            /\ (pc \in {"loop", "returned"} /\ idx > i) =>
                  \E k \in 1..Len(outcomes) : outcomes[k].objectId = data[i].objectId
            /\ ~ ( /\ result.status \in {Verified, Expired, Revoked}
                   /\ Len(result.attestation) = 1
                   /\ result.attestation[1].objectId = data[i].objectId )

\* a transferred record the ledger would report Active ends as Invalid
C5_Witness ==
    /\ Done /\ ~listFails
    /\ \E i \in Positions :
          /\ OwnerMismatched(data[i])
          /\ DecodesTo(inspect[data[i].objectId], 0)
          /\ result.status = Invalid
          /\ result.attestation[1].objectId = data[i].objectId

(***************************************************************************)
(* C6 - zero candidates: an enumeration that succeeds with no record gives *)
(* NotVerified, no attestation block and no status query.                  *)
(***************************************************************************)
C6_ZeroCandidates ==
    (Done /\ ~listFails /\ Len(data) = 0) =>
        /\ result.status = NotVerified
        /\ result.attestation = <<>>
        /\ queried = <<>>

C6_Witness == Done /\ ~listFails /\ Len(data) = 0 /\ listCalls = 1

(***************************************************************************)
(* C7 - scenario E: one owner-matched candidate whose status query or      *)
(* decoding fails gives Error.                                             *)
(***************************************************************************)
C7_ScenarioE ==
    ( /\ Done /\ ~listFails
      /\ Len(data) = 1
      /\ OwnerMatched(data[1])
      /\ QueryFails(inspect[data[1].objectId]) ) =>
        result.status = Error

C7_Witness ==
    /\ Done /\ ~listFails
    /\ Len(data) = 1
    /\ OwnerMatched(data[1])
    /\ ~inspect[data[1].objectId].transportOk
    /\ queried = <<data[1].objectId>>

(***************************************************************************)
(* C8 - scenario F: when the enumeration call fails the call returns Error *)
(* with details that wrap the failure, and no candidate is processed: no   *)
(* status query, no outcome.                                               *)
(***************************************************************************)
C8_ScenarioF ==
    listFails =>
        /\ pc # "loop"
        /\ queried = <<>>
        /\ outcomes = <<>>
        /\ Done => /\ result.status = Error
                   /\ result.details[1] = "SDK Error:"
                   /\ result.details[3] = ListError
                   /\ result.attestation = <<>>

C8_Witness == Done /\ listFails /\ listCalls = 1

(***************************************************************************)
(* C9 - the facade never throws and always terminates: every call          *)
(* eventually resolves, never rejects, with one of the six statuses, after *)
(* at most one enumeration call and at most one status query per           *)
(* enumerated record.                                                      *)
(***************************************************************************)
C9_Structured ==
    /\ pc # "thrown"
    /\ listCalls <= 1
    /\ Len(queried) <= Len(data)
    /\ \A j, k \in 1..Len(queried) : queried[j] = queried[k] => j = k
    /\ \A k \in 1..Len(queried) : \E i \in Positions : data[i].objectId = queried[k]
    /\ Done => result.status \in {"Verified", "Expired", "Revoked", "Invalid", "NotVerified", "Error"}

C9_NeverThrowsTerminates == []C9_Structured /\ <>Done

\* a call that absorbed a skipped record and a failed status query
C9_Witness ==
    /\ Done /\ ~listFails
    /\ \E i \in Positions : ~IsCandidate(data[i])
    /\ \E i \in Positions :
          OwnerMatched(data[i]) /\ ~inspect[data[i].objectId].transportOk
    /\ Error \in Outcomes
    /\ Len(queried) >= 2

\* a call whose enumeration failed and that resolved all the same
C9_WitnessEnumerationFailure == Done /\ listFails /\ result.status = Error

(***************************************************************************)
(* C10 - scenario D generalised: when at least one owner-matched candidate *)
(* evaluates to Revoked, none to Active or Expired, and all the others are *)
(* owner-mismatched, the call returns Revoked in every scan order.         *)
(***************************************************************************)
ScenarioD ==
    /\ Evaluating(2) # {}
    /\ \A i \in Positions : i \in Evaluating(2) \/ OwnerMismatched(data[i])

C10_ScenarioD ==
    (Done /\ ~listFails /\ ScenarioD) =>
        /\ result.status = Revoked
        /\ \A p \in ScanOrders :
              verifyKycStatus(Permute(data, p), inspect).status = Revoked

\* the mismatch is scanned first and the Revoked candidate replaces it
C10_Witness ==
    /\ Done /\ ~listFails /\ ScenarioD
    /\ Len(outcomes) >= 2
    /\ outcomes[1].status = Invalid
    /\ result.status = Revoked

\* the Revoked candidate is scanned first and the mismatch does not replace it
C10_WitnessRevokedFirst ==
    /\ Done /\ ~listFails /\ ScenarioD
    /\ Len(outcomes) >= 2
    /\ outcomes[1].status = Revoked
    /\ outcomes[Len(outcomes)].status = Invalid

(***************************************************************************)
(* C14 - attestation block presence: a returned Verified, Expired, Revoked *)
(* or Invalid result carries the attestation block of the candidate that   *)
(* produced that status, with currentOwner = recipient for the first three *)
(* and currentOwner # recipient for Invalid; a NotVerified or Error result *)
(* carries no block.                                                       *)
(***************************************************************************)
C14_AttestationBlock ==
    Done =>
        /\ result.status \in {Verified, Expired, Revoked, Invalid} =>
              /\ Len(result.attestation) = 1
              /\ \E i \in Positions :
                    LET obj == data[i]
                        att == result.attestation[1]
                    IN  /\ att.objectId = obj.objectId
                        /\ att.recipient = obj.recipient
                        /\ att.currentOwner = obj.owner
                        /\ att.issuer = obj.issuer
                        /\ \E k \in 1..Len(outcomes) :
                              /\ outcomes[k].objectId = obj.objectId
                              /\ outcomes[k].status = result.status
                        /\ (result.status = Invalid) = (att.currentOwner # att.recipient)
        /\ result.status \in {NotVerified, Error} => result.attestation = <<>>

\* an Invalid result kept although a later status query failed
C14_Witness ==
    /\ Done /\ ~listFails
    /\ result.status = Invalid
    /\ Len(result.attestation) = 1
    /\ Error \in Outcomes

\* an Expired result that replaced an Invalid one
C14_WitnessExpired ==
    /\ Done /\ ~listFails
    /\ result.status = Expired
    /\ Len(result.attestation) = 1
    /\ Invalid \in Outcomes

(***************************************************************************)
(* The status decoders taken alone: checkStatus of the SDK and             *)
(* checkOnChainStatus of the web application (web/lib/kyc.ts lines 14-94), *)
(* applied to every shape of devInspect answer.                            *)
(***************************************************************************)
\* longest enum payload a devInspect answer carries
MaxPayload == 2

\* web/lib/kyc.ts lines 14-94
checkOnChainStatus(objectId, reply) ==
    IF objectId = 0 THEN Thrown("Missing required arguments for checkOnChainStatus.")
    ELSE IF ~reply.transportOk
    THEN Thrown("An error has occured when checking on-chain status:")
    ELSE IF reply.status # "success"
    THEN Thrown("An error has occured when checking on-chain status:")
    ELSE IF ~reply.hasReturn
    THEN Thrown("An error has occured when checking on-chain status:")
    ELSE IF reply.type # KycEffectiveStatusType
    THEN Thrown("An error has occured when checking on-chain status:")
    ELSE IF Len(reply.bytes) = 0
    THEN Thrown("An error has occured when checking on-chain status:")
    ELSE LET statusIndex == reply.bytes[1]
         IN  CASE statusIndex = 0 -> Returned("Active")
               [] statusIndex = 1 -> Returned("Expired")
               [] statusIndex = 2 -> Returned("Revoked")
               [] OTHER -> Thrown("An error has occured when checking on-chain status:")

\* the payloads of at most n bytes
Payloads(n) == UNION { [1..k -> 0..MaxTag] : k \in 0..n }

\* every shape of answer: any combination of the fields the decoders read
DecoderReplies ==
    { Reply(t, st, h, ty, b) :
        t \in BOOLEAN, st \in {"success", "failure"}, h \in BOOLEAN,
        ty \in {KycEffectiveStatusType, "u8"}, b \in Payloads(MaxPayload) }

\* no call of verifyKycStatus is under way
SdkIdle ==
    /\ listFails = FALSE
    /\ data = <<>>
    /\ inspect = <<>>
    /\ pc = "ready"
    /\ idx = 0
    /\ result = InitialResult
    /\ listCalls = 0
    /\ queried = <<>>
    /\ outcomes = <<>>

DecoderInit ==
    /\ SdkIdle /\ LedgerIdle /\ HttpIdle /\ CacheIdle
    /\ decIn \in { <<r>> : r \in DecoderReplies }
    /\ decOut = <<>>

\* both decoders are run on the answer
Decode ==
    /\ decIn # <<>>
    /\ decOut = <<>>
    /\ decOut' = << [ sdk |-> checkStatus(decIn[1]),
                      web |-> checkOnChainStatus(1, decIn[1]) ] >>
    /\ UNCHANGED <<decIn, sdkVars, ledgerVars, httpVars, cacheVars>>

DecoderNext == Decode

DecoderSpec == DecoderInit /\ [][DecoderNext]_vars

(***************************************************************************)
(* C11 - decoder totality and strictness: an answer that carries a return  *)
(* value of the expected type decodes to Active, Expired, Revoked for tag  *)
(* 0, 1, 2; the decoders throw when the declared type differs, when the    *)
(* payload is empty and when the tag is outside {0,1,2}; they never return *)
(* a status for an input they do not recognise.                            *)
(***************************************************************************)
TagName(t) == CASE t = 0 -> "Active" [] t = 1 -> "Expired" [] t = 2 -> "Revoked"

HasReturnValue(reply) ==
    reply.transportOk /\ reply.status = "success" /\ reply.hasReturn

C11_DecoderStrict ==
    decOut # <<>> =>
        LET reply == decIn[1] IN
        \A decoded \in {decOut[1].sdk, decOut[1].web} :
            /\ \A t \in 0..2 :
                  ( /\ HasReturnValue(reply)
                    /\ reply.type = KycEffectiveStatusType
                    /\ Len(reply.bytes) > 0
                    /\ reply.bytes[1] = t )
                  => (~decoded.threw /\ decoded.value = TagName(t))
            /\ ( \/ ~HasReturnValue(reply)
                 \/ reply.type # KycEffectiveStatusType
                 \/ Len(reply.bytes) = 0
                 \/ reply.bytes[1] \notin {0, 1, 2} )
               => decoded.threw
            /\ ~decoded.threw => decoded.value \in {"Active", "Expired", "Revoked"}

\* an answer of the expected type with an unknown tag has been rejected
C11_Witness ==
    /\ decOut # <<>>
    /\ HasReturnValue(decIn[1])
    /\ decIn[1].type = KycEffectiveStatusType
    /\ Len(decIn[1].bytes) > 0
    /\ decIn[1].bytes[1] = 3
    /\ decOut[1].sdk.threw /\ decOut[1].web.threw

\* a recognised tag has been decoded
C11_WitnessDecoded ==
    /\ decOut # <<>>
    /\ ~decOut[1].sdk.threw /\ decOut[1].sdk.value = "Revoked"
    /\ ~decOut[1].web.threw /\ decOut[1].web.value = "Revoked"

(***************************************************************************)
(* The ledger: module coda_kyc::attestation (sources/kyc.move).  A         *)
(* transaction that aborts changes nothing on the ledger; tx records the   *)
(* entry function called, its sender and the abort code (0 when it         *)
(* succeeded).                                                             *)
(***************************************************************************)
\* largest number of attestations issued
MaxAttestations == 1
\* largest value of the clock, in ms
MaxClock == 2
\* largest expiry_offset_ms an issuer passes
MaxOffset == 1

\* kyc.move lines 41-48
EIssuerAlreadyExists == 1
EIssuerNotFound == 2
EIssuerNotAuthorized == 3
ENotOriginalIssuer == 4
\* the code of an assert! written without one (line 224)
ENoCode == 0 - 1

\* the holder of the OperatorCap, and the addresses that send transactions
Admin == "0xAb"
IssuerAddresses == {"0xB1", "0xB2"}
Recipients == {Subject}

\* lines 287-289: table::length of the registry
issuer_count(registry) == Cardinality(registry)

\* whoever may send a transaction that names an attestation
Senders == IssuerAddresses \cup Recipients

\* the owner of a frozen object: no address (transfer::public_freeze_object)
Immutable == "Immutable"

\* lines 106-113; the object id is the position in attestations
KycAttestation(recipient, issuer, issuance, expiry) ==
    [ recipient |-> recipient, issuer |-> issuer,
      issuance_timestamp_ms |-> issuance, expiry_timestamp_ms |-> expiry ]

\* lines 244-246
is_revoked(registry, id) == id \in DOMAIN registry

\* lines 239-241
is_issuer_authorized(registry, issuer_address) == issuer_address \in registry

\* the expiry compared before the revocation registry is read
get_effective_status_ExpiryFirst(id, attestation, revocation_registry, current_time_ms) ==
    IF attestation.expiry_timestamp_ms # 0
       /\ current_time_ms >= attestation.expiry_timestamp_ms
    THEN "Expired"
    ELSE IF is_revoked(revocation_registry, id) THEN "Revoked"
    ELSE "Active"

\* the attestation still Active at the very instant of its expiry
get_effective_status_StrictlyAfter(id, attestation, revocation_registry, current_time_ms) ==
    IF is_revoked(revocation_registry, id) THEN "Revoked"
    ELSE IF attestation.expiry_timestamp_ms # 0
            /\ current_time_ms > attestation.expiry_timestamp_ms
    THEN "Expired"
    ELSE "Active"

\* lines 252-268
get_effective_status(id, attestation, revocation_registry, current_time_ms) ==
    IF is_revoked(revocation_registry, id) THEN "Revoked"
    ELSE IF attestation.expiry_timestamp_ms # 0
            /\ current_time_ms >= attestation.expiry_timestamp_ms
    THEN "Expired"
    ELSE "Active"

\* an address already registered is accepted again
add_issuer_Overwrites(issuer) ==
    /\ tx' = Tx("add_issuer", Admin, 0)
    /\ issuers' = issuers \cup {issuer}
    /\ UNCHANGED <<attestations, owners, revocations, clock>>
    /\ UNCHANGED <<sdkVars, decoderVars, httpVars, cacheVars>>

\* lines 135-150
add_issuer(issuer) ==
    /\ IF is_issuer_authorized(issuers, issuer)
       THEN /\ tx' = Tx("add_issuer", Admin, EIssuerAlreadyExists)
            /\ issuers' = issuers
       ELSE /\ tx' = Tx("add_issuer", Admin, 0)
            /\ issuers' = issuers \cup {issuer}
    /\ UNCHANGED <<attestations, owners, revocations, clock>>
    /\ UNCHANGED <<sdkVars, decoderVars, httpVars, cacheVars>>

\* the removal empties the registry
remove_issuer_ClearsAll(issuer) ==
    /\ IF ~is_issuer_authorized(issuers, issuer)
       THEN /\ tx' = Tx("remove_issuer", Admin, EIssuerNotFound)
            /\ issuers' = issuers
       ELSE /\ tx' = Tx("remove_issuer", Admin, 0)
            /\ issuers' = {}
    /\ UNCHANGED <<attestations, owners, revocations, clock>>
    /\ UNCHANGED <<sdkVars, decoderVars, httpVars, cacheVars>>

\* the revocations made by the issuer leave the ledger with it
remove_issuer_DropsRevocations(issuer) ==
    /\ IF ~is_issuer_authorized(issuers, issuer)
       THEN /\ tx' = Tx("remove_issuer", Admin, EIssuerNotFound)
            /\ issuers' = issuers
            /\ revocations' = revocations
       ELSE /\ tx' = Tx("remove_issuer", Admin, 0)
            /\ issuers' = issuers \ {issuer}
            /\ revocations' =
                   [ i \in { j \in DOMAIN revocations : attestations[j].issuer # issuer }
                       |-> revocations[i] ]
    /\ UNCHANGED <<attestations, owners, clock>>
    /\ UNCHANGED <<sdkVars, decoderVars, httpVars, cacheVars>>

\* lines 152-168
remove_issuer(issuer) ==
    /\ IF ~is_issuer_authorized(issuers, issuer)
       THEN /\ tx' = Tx("remove_issuer", Admin, EIssuerNotFound)
            /\ issuers' = issuers
       ELSE /\ tx' = Tx("remove_issuer", Admin, 0)
            /\ issuers' = issuers \ {issuer}
    /\ UNCHANGED <<attestations, owners, revocations, clock>>
    /\ UNCHANGED <<sdkVars, decoderVars, httpVars, cacheVars>>

\* the attestation issued without looking the sender up in the registry
issue_attestation_Unchecked(sender, recipient, expiry_offset_ms) ==
    /\ Len(attestations) < MaxAttestations
    /\ LET current_time_ms == clock
           expiry_timestamp_ms ==
               IF expiry_offset_ms > 0 THEN current_time_ms + expiry_offset_ms ELSE 0
       IN  /\ tx' = Tx("issue_attestation", sender, 0)
           /\ attestations' = Append(attestations,
                  KycAttestation(recipient, sender, current_time_ms, expiry_timestamp_ms))
           /\ owners' = Append(owners, Immutable)
    /\ UNCHANGED <<issuers, revocations, clock>>
    /\ UNCHANGED <<sdkVars, decoderVars, httpVars, cacheVars>>

\* the new object is left with the issuer that created it
issue_attestation_KeptByIssuer(sender, recipient, expiry_offset_ms) ==
    /\ IF ~is_issuer_authorized(issuers, sender)
       THEN /\ tx' = Tx("issue_attestation", sender, EIssuerNotAuthorized)
            /\ attestations' = attestations
            /\ owners' = owners
       ELSE /\ Len(attestations) < MaxAttestations
            /\ LET current_time_ms == clock
                   expiry_timestamp_ms ==
                       IF expiry_offset_ms > 0
                       THEN current_time_ms + expiry_offset_ms ELSE 0
               IN  /\ tx' = Tx("issue_attestation", sender, 0)
                   /\ attestations' = Append(attestations,
                          KycAttestation(recipient, sender, current_time_ms,
                                         expiry_timestamp_ms))
                   /\ owners' = Append(owners, sender)
    /\ UNCHANGED <<issuers, revocations, clock>>
    /\ UNCHANGED <<sdkVars, decoderVars, httpVars, cacheVars>>

\* lines 174-209
issue_attestation(sender, recipient, expiry_offset_ms) ==
    /\ IF ~is_issuer_authorized(issuers, sender)
       THEN /\ tx' = Tx("issue_attestation", sender, EIssuerNotAuthorized)
            /\ attestations' = attestations
            /\ owners' = owners
       ELSE /\ Len(attestations) < MaxAttestations
            /\ LET current_time_ms == clock
                   expiry_timestamp_ms ==
                       IF expiry_offset_ms > 0
                       THEN current_time_ms + expiry_offset_ms ELSE 0
               IN  /\ tx' = Tx("issue_attestation", sender, 0)
                   /\ attestations' = Append(attestations,
                          KycAttestation(recipient, sender, current_time_ms,
                                         expiry_timestamp_ms))
                   /\ owners' = Append(owners, Immutable)
    /\ UNCHANGED <<issuers, revocations, clock>>
    /\ UNCHANGED <<sdkVars, decoderVars, httpVars, cacheVars>>

\* the sender is not compared with the recorded issuer
revoke_attestation_AnySender(sender, id) ==
    /\ id \in 1..Len(attestations)
    /\ IF is_revoked(revocations, id)
       THEN /\ tx' = Tx("revoke_attestation", sender, ENoCode)
            /\ revocations' = revocations
       ELSE /\ tx' = Tx("revoke_attestation", sender, 0)
            /\ revocations' = [ i \in DOMAIN revocations \cup {id} |->
                                  IF i = id THEN clock ELSE revocations[i] ]
    /\ UNCHANGED <<issuers, attestations, owners, clock>>
    /\ UNCHANGED <<sdkVars, decoderVars, httpVars, cacheVars>>

\* the sender must also still be in the IssuerRegistry
revoke_attestation_RegisteredOnly(sender, id) ==
    /\ id \in 1..Len(attestations)
    /\ IF sender # attestations[id].issuer
       THEN /\ tx' = Tx("revoke_attestation", sender, ENotOriginalIssuer)
            /\ revocations' = revocations
       ELSE IF ~is_issuer_authorized(issuers, sender)
       THEN /\ tx' = Tx("revoke_attestation", sender, EIssuerNotAuthorized)
            /\ revocations' = revocations
       ELSE IF is_revoked(revocations, id)
       THEN /\ tx' = Tx("revoke_attestation", sender, ENoCode)
            /\ revocations' = revocations
       ELSE /\ tx' = Tx("revoke_attestation", sender, 0)
            /\ revocations' = [ i \in DOMAIN revocations \cup {id} |->
                                  IF i = id THEN clock ELSE revocations[i] ]
    /\ UNCHANGED <<issuers, attestations, owners, clock>>
    /\ UNCHANGED <<sdkVars, decoderVars, httpVars, cacheVars>>

\* lines 213-236
revoke_attestation(sender, id) ==
    /\ id \in 1..Len(attestations)
    /\ IF sender # attestations[id].issuer
       THEN /\ tx' = Tx("revoke_attestation", sender, ENotOriginalIssuer)
            /\ revocations' = revocations
       ELSE IF is_revoked(revocations, id)
       THEN /\ tx' = Tx("revoke_attestation", sender, ENoCode)
            /\ revocations' = revocations
       ELSE /\ tx' = Tx("revoke_attestation", sender, 0)
            /\ revocations' = [ i \in DOMAIN revocations \cup {id} |->
                                  IF i = id THEN clock ELSE revocations[i] ]
    /\ UNCHANGED <<issuers, attestations, owners, clock>>
    /\ UNCHANGED <<sdkVars, decoderVars, httpVars, cacheVars>>

\* time passes on the ledger
Tick ==
    /\ clock < MaxClock
    /\ clock' = clock + 1
    /\ tx' = Tx("clock", "0x6", 0)
    /\ UNCHANGED <<issuers, attestations, owners, revocations>>
    /\ UNCHANGED <<sdkVars, decoderVars, httpVars, cacheVars>>

LedgerInit == SdkIdle /\ DecoderIdle /\ LedgerIdle /\ HttpIdle /\ CacheIdle

LedgerNext ==
    \/ \E a \in IssuerAddresses : add_issuer(a)
    \/ \E a \in IssuerAddresses : remove_issuer(a)
    \/ \E s \in IssuerAddresses, r \in Recipients, o \in 0..MaxOffset :
          issue_attestation(s, r, o)
    \/ \E s \in Senders, id \in 1..MaxAttestations : revoke_attestation(s, id)
    \/ Tick

LedgerSpec == LedgerInit /\ [][LedgerNext]_vars

(***************************************************************************)
(* Claims about the ledger.                                                *)
(***************************************************************************)
\* the clock values a status query may see: up to and past every expiry
ClockValues == 0..(MaxClock + MaxOffset + 1)

\* the attestations that have been revoked
Revoked_ids == DOMAIN revocations

\* C18: revocation takes priority over expiry: for every revoked
\* attestation get_effective_status returns Revoked for every clock value,
\* before and at or after its expiry timestamp, whether it was revoked
\* before or after it expired.
C18_RevocationPriority ==
    \A id \in Revoked_ids : \A t \in ClockValues :
        get_effective_status(id, attestations[id], revocations, t) = "Revoked"

\* an attestation with an expiry, revoked before it expired, queried at or
\* after the expiry
C18_Witness ==
    \E id \in Revoked_ids :
        /\ attestations[id].expiry_timestamp_ms # 0
        /\ revocations[id] < attestations[id].expiry_timestamp_ms
        /\ clock >= attestations[id].expiry_timestamp_ms

\* an attestation revoked when it had already expired
C18_WitnessRevokedAfterExpiry ==
    \E id \in Revoked_ids :
        /\ attestations[id].expiry_timestamp_ms # 0
        /\ revocations[id] >= attestations[id].expiry_timestamp_ms

\* the expiry rule for the attestations that are not revoked
C19_Rule ==
    \A id \in DOMAIN attestations \ Revoked_ids : \A t \in ClockValues :
        LET expiry == attestations[id].expiry_timestamp_ms
            status == get_effective_status(id, attestations[id], revocations, t)
        IN  /\ status = "Expired" <=> (expiry # 0 /\ t >= expiry)
            /\ status # "Expired" => status = "Active"

\* a successful issue_attestation with offset 0 stores expiry 0, and the new
\* attestation is Expired at no clock value
C19_ZeroOffset ==
    \A s \in IssuerAddresses, r \in Recipients :
        (tx' = Tx("issue_attestation", s, 0) /\ issue_attestation(s, r, 0)) =>
            LET id == Len(attestations') IN
            /\ attestations'[id].expiry_timestamp_ms = 0
            /\ \A t \in ClockValues :
                 get_effective_status(id, attestations'[id], revocations', t)
                     # "Expired"

\* C19: for every attestation that is not revoked and every clock value now
\* the status is Expired exactly when expiry_timestamp_ms # 0 and
\* now >= expiry_timestamp_ms (the boundary now = expiry included) and
\* Active otherwise; an attestation issued with expiry_offset_ms = 0 has
\* expiry_timestamp_ms = 0 and is never Expired.
C19_ExpiryRule == []C19_Rule /\ [][C19_ZeroOffset]_vars

\* an unrevoked attestation queried exactly at its expiry timestamp
C19_Witness ==
    \E id \in DOMAIN attestations \ Revoked_ids :
        /\ attestations[id].expiry_timestamp_ms # 0
        /\ clock = attestations[id].expiry_timestamp_ms
        /\ get_effective_status(id, attestations[id], revocations, clock) = "Expired"

\* an unrevoked attestation without expiry, long after its issuance
C19_WitnessNoExpiry ==
    \E id \in DOMAIN attestations \ Revoked_ids :
        /\ attestations[id].expiry_timestamp_ms = 0
        /\ clock = MaxClock
        /\ attestations[id].issuance_timestamp_ms = 0

\* a call of issue_attestation by a sender outside the registry aborts with
\* EIssuerNotAuthorized and leaves the attestations as they were
C20_UnregisteredAborts ==
    (tx'.fn = "issue_attestation" /\ ~is_issuer_authorized(issuers, tx'.sender)) =>
        /\ tx'.abort = EIssuerNotAuthorized
        /\ attestations' = attestations

\* an attestation comes into existence only by a call of its issuer, who is
\* in the registry at that moment; existing attestations are left alone
C20_IssuedByRegistered ==
    /\ Len(attestations') >= Len(attestations)
    /\ \A id \in DOMAIN attestations : attestations'[id] = attestations[id]
    /\ \A id \in DOMAIN attestations' \ DOMAIN attestations :
          /\ is_issuer_authorized(issuers, attestations'[id].issuer)
          /\ tx' = Tx("issue_attestation", attestations'[id].issuer, 0)

\* C20: issue_attestation called by a sender that is not in the
\* IssuerRegistry aborts with EIssuerNotAuthorized and creates no
\* attestation; every attestation's issuer was a member of the registry at
\* the moment of its issuance.
C20_OnlyRegisteredIssue ==
    [][C20_UnregisteredAborts /\ C20_IssuedByRegistered]_vars

\* an unregistered sender has just been refused while an attestation of a
\* registered issuer exists
C20_Witness ==
    /\ tx = Tx("issue_attestation", tx.sender, EIssuerNotAuthorized)
    /\ ~is_issuer_authorized(issuers, tx.sender)
    /\ Len(attestations) >= 1

(***************************************************************************)
(* The SDK verifying the subject against the ledger: getOwnedObjects       *)
(* reports attestations of the ledger, devInspect answers with the         *)
(* contract's get_effective_status at the current clock.                   *)
(***************************************************************************)
\* the BCS enum index of a KycEffectiveStatus variant (kyc.move lines 80-84)
StatusIndex(status) ==
    CASE status = "Active" -> 0
      [] status = "Expired" -> 1
      [] status = "Revoked" -> 2

\* the record the fullnode returns for attestation id held by holder
OwnedRecord(id, holder) ==
    [ hasData |-> TRUE, objectId |-> id, dataType |-> "moveObject",
      type |-> KycAttestationType, owner |-> holder,
      recipient |-> attestations[id].recipient,
      issuer |-> attestations[id].issuer,
      issuance_timestamp_ms |-> attestations[id].issuance_timestamp_ms,
      expiry_timestamp_ms |-> attestations[id].expiry_timestamp_ms,
      statusVariant |-> "undefined" ]

\* the records of the attestations in owned, from position id on
RECURSIVE OwnedRecords(_, _)
OwnedRecords(owned, id) ==
    IF id > Len(attestations) THEN <<>>
    ELSE (IF id \in owned THEN <<OwnedRecord(id, Subject)>> ELSE <<>>)
         \o OwnedRecords(owned, id + 1)

\* what devInspect of get_effective_status answers for each attestation
LedgerAnswers ==
    [ id \in DOMAIN attestations |->
        TagReply(StatusIndex(
            get_effective_status(id, attestations[id], revocations, clock))) ]

\* verifyKycStatus(Subject) run to its end against the ledger as it stands;
\* owned are the attestations the fullnode lists under the subject's
\* address (an issued object is frozen by kyc.move line 208 and handed to
\* the recipient by the core module the SDK addresses)
Verify ==
    /\ pc = "ready"
    /\ \E owned \in SUBSET DOMAIN attestations :
         LET records == OwnedRecords(owned, 1) IN
         /\ data' = records
         /\ inspect' = LedgerAnswers
         /\ result' = verifyKycStatus(records, LedgerAnswers)
    /\ pc' = "returned"
    /\ listCalls' = listCalls + 1
    /\ UNCHANGED <<listFails, idx, queried, outcomes>>
    /\ UNCHANGED <<decoderVars, ledgerVars, httpVars, cacheVars>>

\* transactions on the ledger up to the moment of the verification
LedgerBeforeVerify == pc = "ready" /\ LedgerNext

VerifyNext == LedgerBeforeVerify \/ Verify

VerifySpec == LedgerInit /\ [][VerifyNext]_vars

MaxWebRecords == 2

\* the byte length of an address (@mysten/sui/utils)
SUI_ADDRESS_LENGTH == 32

Str(text) == [ defined |-> TRUE, text |-> text ]

Repeat(c, n) == [ i \in 1..n |-> c ]

\* the characters of the model: hexadecimal digits, and one that is none
HexDigits == {"0", "a"}

\* the addresses a request body may carry: none, the empty string, a string
\* that is no hexadecimal number, a short form, a full address, one digit
\* too many
RequestAddresses ==
    { Undefined, Str(<<>>), Str(<<"z">>), Str(<<"a">>),
      Str(Repeat("a", 2 * SUI_ADDRESS_LENGTH)),
      Str(Repeat("a", 2 * SUI_ADDRESS_LENGTH + 1)) }

\* normalizeSuiAddress: the digits padded with zeros on the left to the
\* full length, the prefix put back
normalizeSuiAddress(text) ==
    IF Len(text) >= 2 * SUI_ADDRESS_LENGTH THEN text
    ELSE Repeat("0", 2 * SUI_ADDRESS_LENGTH - Len(text)) \o text

\* isValidSuiAddress: hexadecimal and exactly SUI_ADDRESS_LENGTH bytes
isValidSuiAddress(text) ==
    /\ \A i \in DOMAIN text : text[i] \in HexDigits
    /\ Len(text) = 2 * SUI_ADDRESS_LENGTH

\* the validation lets every request through
RejectsAddress_Never(a) == FALSE

\* line 34: !address || !isValidSuiAddress(normalizeSuiAddress(address))
RejectsAddress(a) ==
    \/ ~a.defined
    \/ a.text = <<>>
    \/ ~isValidSuiAddress(normalizeSuiAddress(a.text))

\* lines 35-39
InvalidAddressResult ==
    KycVerificationResult(Error,
        <<"Invalid Sui address provided. Please check the address and try again.",
          0, "">>, <<>>)

\* lines 56-59
WebInitialResult ==
    KycVerificationResult(NotVerified, <<"No valid KYC attestation found.", 0, "">>, <<>>)

\* lines 132-150: the failed status check merged by priority
WebOnStatusQueryFailure(best, att) ==
    LoopStep(
        IF statusPriority(Error) > statusPriority(best.status)
        THEN KycVerificationResult(Error,
                <<"Failed to check on-chain status for potential attestation",
                  att.objectId, "Error">>, <<att>>)
        ELSE best,
        FALSE, TRUE, <<Error>>)

\* lines 152-169
WebOnStatus(best, currentSdkStatus, att) ==
    LET currentResult ==
            KycVerificationResult(currentSdkStatus,
                <<"This user currently has a valid KYC attestation.", 0,
                  currentSdkStatus>>, <<att>>)
    IN  IF currentResult.status = Verified
        THEN LoopStep(currentResult, TRUE, TRUE, <<currentSdkStatus>>)
        ELSE LoopStep(
                IF statusPriority(currentResult.status) > statusPriority(best.status)
                THEN currentResult ELSE best,
                FALSE, TRUE, <<currentSdkStatus>>)

\* lines 61-170, for the record obj and the answer devInspect gives for it
WebLoopBody(best, obj, reply) ==
    IF ~obj.hasData \/ obj.dataType # "moveObject"
    THEN SkipRecord(best)
    ELSE IF obj.owner = "Shared"
    THEN SkipRecord(best)
    ELSE LET att == attestationDetails(obj) IN
         IF att.currentOwner # att.recipient
         THEN OnOwnerMismatch(best, att)
         ELSE LET effectiveStatus == checkOnChainStatus(obj.objectId, reply) IN
              IF effectiveStatus.threw
              THEN WebOnStatusQueryFailure(best, att)
              ELSE WebOnStatus(best, MapStatus(effectiveStatus.value), att)

\* a request arrives: its body, and what the ledger will answer
WebInit ==
    /\ DecoderIdle /\ LedgerIdle /\ CacheIdle
    /\ address \in RequestAddresses
    /\ httpStatus = 0
    /\ listFails \in BOOLEAN
    /\ \E n \in 0..MaxWebRecords : data \in Enumerations(n)
    /\ listFails => data = <<>>
    /\ inspect \in AnswersFor(data)
    /\ pc = "ready"
    /\ idx = 0
    /\ result = WebInitialResult
    /\ listCalls = 0
    /\ queried = <<>>
    /\ outcomes = <<>>

\* lines 31-40: validation of the address
WebValidate ==
    /\ pc = "ready"
    /\ IF RejectsAddress(address)
       THEN /\ httpStatus' = 400
            /\ result' = InvalidAddressResult
            /\ pc' = "returned"
       ELSE /\ httpStatus' = httpStatus
            /\ result' = result
            /\ pc' = "validated"
    /\ UNCHANGED <<listFails, data, inspect, idx, listCalls, queried, outcomes, address>>
    /\ UNCHANGED <<decoderVars, ledgerVars, cacheVars>>

\* lines 173-178
WebOuterCatch(error) ==
    KycVerificationResult(Error, <<"Internal Server Error:", 0, error>>, <<>>)

\* lines 42-59: getOwnedObjects is awaited
WebEnumerate ==
    /\ pc = "validated"
    /\ listCalls' = listCalls + 1
    /\ IF listFails
       THEN /\ pc' = "returned"
            /\ httpStatus' = 500
            /\ result' = WebOuterCatch(ListError)
            /\ idx' = idx
       ELSE /\ pc' = "loop"
            /\ httpStatus' = httpStatus
            /\ result' = WebInitialResult
            /\ idx' = 1
    /\ UNCHANGED <<listFails, data, inspect, queried, outcomes, address>>
    /\ UNCHANGED <<decoderVars, ledgerVars, cacheVars>>

\* lines 61-170: one iteration of the loop; on Verified the loop is left
\* and the response sent (lines 159-161, 172, 181)
WebScanRecord ==
    /\ pc = "loop"
    /\ idx <= Len(data)
    /\ LET obj == data[idx]
           step == WebLoopBody(result, obj, inspect[obj.objectId])
       IN  /\ result' = step.result
           /\ queried' = IF step.query THEN Append(queried, obj.objectId) ELSE queried
           /\ outcomes' = IF Len(step.outcome) > 0
                          THEN Append(outcomes, [objectId |-> obj.objectId,
                                                 status |-> step.outcome[1]])
                          ELSE outcomes
           /\ pc' = IF step.return THEN "returned" ELSE "loop"
           /\ httpStatus' = IF step.return THEN 200 ELSE httpStatus
           /\ idx' = IF step.return THEN idx ELSE idx + 1
    /\ UNCHANGED <<listFails, data, inspect, listCalls, address>>
    /\ UNCHANGED <<decoderVars, ledgerVars, cacheVars>>

\* lines 172 and 181: the loop is over, the best result is sent
WebRespond ==
    /\ pc = "loop"
    /\ idx > Len(data)
    /\ pc' = "returned"
    /\ httpStatus' = 200
    /\ UNCHANGED <<listFails, data, inspect, idx, result, listCalls, queried,
                   outcomes, address>>
    /\ UNCHANGED <<decoderVars, ledgerVars, cacheVars>>

WebNext == WebValidate \/ WebEnumerate \/ WebScanRecord \/ WebRespond

WebSpec == WebInit /\ [][WebNext]_vars

C13_WitnessMissing == address = Undefined /\ pc = "returned"

(***************************************************************************)
(* The issuer cache of SynthVerifier (part_003 lines 31-33 and 51-79).     *)
(* calls holds one record per call of fetchAuthorizedIssuers: its          *)
(* argument, whether the cache was absent when it started, where it        *)
(* stands, how its getObject ended and what it returned.                   *)
(***************************************************************************)
MaxCalls == 3
MaxNow == 3

\* options.issuerCacheDurationMs, in ticks of the model's clock
cacheDurationMs == 2

\* the issuers the registry object on the ledger lists
RegistryIssuers == {"0xB1"}

\* a call of fetchAuthorizedIssuers; ret is <<>> for undefined
Call(forceRefresh, cold, at, state, fetch, ret) ==
    [ forceRefresh |-> forceRefresh, cold |-> cold, at |-> at,
      pc |-> state, fetch |-> fetch, ret |-> ret ]

\* lines 51-68: the call starts; a hit returns at once, otherwise getObject
\* is issued and awaited
fetchAuthorizedIssuers(forceRefresh) ==
    /\ Len(calls) < MaxCalls
    /\ IF ~forceRefresh /\ authorizedIssuers # <<>>
          /\ now - lastIssuerFetchTime < cacheDurationMs
       THEN /\ calls' = Append(calls,
                   Call(forceRefresh, FALSE, now, "returned", "none", authorizedIssuers))
            /\ getObjectCalls' = getObjectCalls
       ELSE /\ calls' = Append(calls,
                   Call(forceRefresh, authorizedIssuers = <<>>, now, "awaiting",
                        "none", <<>>))
            /\ getObjectCalls' = getObjectCalls + 1
    /\ UNCHANGED <<authorizedIssuers, lastIssuerFetchTime, now>>
    /\ UNCHANGED <<sdkVars, decoderVars, ledgerVars, httpVars>>

\* lines 65-72 and 79: getObject resolves, the object is logged, the
\* function ends without a return statement
GetObjectResolves(i) ==
    /\ i \in DOMAIN calls
    /\ calls[i].pc = "awaiting"
    /\ calls' = [calls EXCEPT ![i] =
                    Call(@.forceRefresh, @.cold, now, "returned", "ok", <<>>)]
    /\ UNCHANGED <<authorizedIssuers, lastIssuerFetchTime, now, getObjectCalls>>
    /\ UNCHANGED <<sdkVars, decoderVars, ledgerVars, httpVars>>

\* lines 73-79: getObject rejects, the catch logs the error, the function
\* ends without a return statement
GetObjectRejects(i) ==
    /\ i \in DOMAIN calls
    /\ calls[i].pc = "awaiting"
    /\ calls' = [calls EXCEPT ![i] =
                    Call(@.forceRefresh, @.cold, now, "returned", "failed", <<>>)]
    /\ UNCHANGED <<authorizedIssuers, lastIssuerFetchTime, now, getObjectCalls>>
    /\ UNCHANGED <<sdkVars, decoderVars, ledgerVars, httpVars>>

\* Date.now() advances
CacheTick ==
    /\ now < MaxNow
    /\ now' = now + 1
    /\ UNCHANGED <<authorizedIssuers, lastIssuerFetchTime, calls, getObjectCalls>>
    /\ UNCHANGED <<sdkVars, decoderVars, ledgerVars, httpVars>>

CacheInit == SdkIdle /\ DecoderIdle /\ LedgerIdle /\ HttpIdle /\ CacheIdle

CacheNext ==
    \/ \E forceRefresh \in BOOLEAN : fetchAuthorizedIssuers(forceRefresh)
    \/ \E i \in 1..MaxCalls : GetObjectResolves(i)
    \/ \E i \in 1..MaxCalls : GetObjectRejects(i)
    \/ CacheTick

CacheSpec == CacheInit /\ [][CacheNext]_vars

\* the calls whose getObject is outstanding
Outstanding == { i \in DOMAIN calls : calls[i].pc = "awaiting" }

\* C15: once a call has completed a successful refresh at time t, the
\* fetched set and t are stored together and the call returns that set;
\* every later call without forceRefresh started at t' with t' - t < ttl
\* returns the same set without a ledger call.
C15_CacheHitAfterRefresh ==
    \A i \in DOMAIN calls :
        (calls[i].pc = "returned" /\ calls[i].fetch = "ok") =>
            /\ calls[i].ret = <<RegistryIssuers>>
            /\ authorizedIssuers = <<RegistryIssuers>>
            /\ lastIssuerFetchTime >= calls[i].at
            /\ \A j \in DOMAIN calls :
                 (j > i /\ ~calls[j].forceRefresh
                  /\ calls[j].at - lastIssuerFetchTime < cacheDurationMs
                  /\ calls[j].fetch = "none" /\ calls[j].pc = "returned") =>
                     calls[j].ret = <<RegistryIssuers>>

\* C16: when two or more calls are started concurrently while the cache is
\* empty, at most one ledger refresh is outstanding at any time and exactly
\* one is issued in total for that group of callers.
C16_SingleFlight ==
    /\ Cardinality(Outstanding) <= 1
    /\ (\A i \in DOMAIN calls : calls[i].pc = "awaiting" /\ calls[i].cold) =>
           getObjectCalls <= 1

\* C17: when the cache holds no set and the ledger refresh fails, the call
\* fails towards its caller instead of completing normally; the cache stays
\* absent.
C17_ColdFailurePropagates ==
    \A i \in DOMAIN calls :
        (calls[i].cold /\ calls[i].fetch = "failed") =>
            /\ calls[i].pc = "thrown"
            /\ authorizedIssuers = <<>>

(***************************************************************************)
(* Claims about the entry functions of the ledger.                         *)
(***************************************************************************)
\* the effective status of attestation id at every clock value, in the
\* registry given
StatusAtAll(id, registry) ==
    [ t \in ClockValues |-> get_effective_status(id, attestations[id], registry, t) ]

\* C21: revoke_attestation called by a sender other than the attestation's
\* recorded issuer aborts with ENotOriginalIssuer and leaves the revocation
\* status unchanged: the effective status before and after is the same.
C21_OnlyIssuerRevokes ==
    [][\A s \in Senders, id \in 1..MaxAttestations :
         (tx'.fn = "revoke_attestation" /\ revoke_attestation(s, id)
          /\ s # attestations[id].issuer) =>
             /\ tx'.abort = ENotOriginalIssuer
             /\ is_revoked(revocations', id) = is_revoked(revocations, id)
             /\ StatusAtAll(id, revocations') = StatusAtAll(id, revocations)]_vars

\* the recipient has just been refused the revocation of an attestation
\* that is not revoked
C21_Witness ==
    /\ tx = Tx("revoke_attestation", Subject, ENotOriginalIssuer)
    /\ Len(attestations) >= 1
    /\ ~is_revoked(revocations, 1)

\* a registered issuer that is not the recorded one has been refused
C21_WitnessOtherIssuer ==
    /\ tx.fn = "revoke_attestation" /\ tx.abort = ENotOriginalIssuer
    /\ is_issuer_authorized(issuers, tx.sender)
    /\ Len(attestations) >= 1

\* the abort code the tests and the readme name for a second revocation
EAttestationAlreadyRevoked == 5

\* C22: revoke_attestation called by the original issuer on an attestation
\* that is already revoked aborts with EAttestationAlreadyRevoked, and the
\* attestation stays revoked.
C22_RevokeTwiceRejected ==
    [][\A s \in Senders, id \in 1..MaxAttestations :
         (tx'.fn = "revoke_attestation" /\ revoke_attestation(s, id)
          /\ s = attestations[id].issuer /\ is_revoked(revocations, id)) =>
             /\ tx'.abort = EAttestationAlreadyRevoked
             /\ is_revoked(revocations', id)]_vars

\* C23: add_issuer for an address already in the IssuerRegistry aborts with
\* EIssuerAlreadyExists and remove_issuer for an address not in it aborts
\* with EIssuerNotFound; the set of registered issuers is unchanged.
C23_RegistryPreconditions ==
    [][\A a \in IssuerAddresses :
         /\ (tx'.fn = "add_issuer" /\ add_issuer(a)
             /\ is_issuer_authorized(issuers, a)) =>
                (tx'.abort = EIssuerAlreadyExists /\ issuers' = issuers)
         /\ (tx'.fn = "remove_issuer" /\ remove_issuer(a)
             /\ ~is_issuer_authorized(issuers, a)) =>
                (tx'.abort = EIssuerNotFound /\ issuers' = issuers)]_vars

\* a registered address has just been refused a second registration
C23_Witness ==
    /\ tx = Tx("add_issuer", Admin, EIssuerAlreadyExists)
    /\ issuers # {}

\* the removal of an address that is not registered has just been refused
C23_WitnessRemove ==
    /\ tx = Tx("remove_issuer", Admin, EIssuerNotFound)
    /\ issuers # IssuerAddresses

\* the registry answers for exactly the addresses it holds, and counts them
C24_Membership ==
    /\ issuer_count(issuers) =
           Cardinality({ a \in IssuerAddresses : is_issuer_authorized(issuers, a) })
    /\ tx = NoTx => (issuer_count(issuers) = 0
                     /\ \A a \in IssuerAddresses : ~is_issuer_authorized(issuers, a))

\* a successful add_issuer(a) adds a and nothing else, a successful
\* remove_issuer(a) removes a and nothing else, nothing else changes the
\* registry
C24_Step ==
    /\ \A a \in IssuerAddresses :
         /\ (tx' = Tx("add_issuer", Admin, 0) /\ add_issuer(a)) =>
              /\ \A b \in IssuerAddresses :
                   is_issuer_authorized(issuers', b) <=>
                       (b = a \/ is_issuer_authorized(issuers, b))
              /\ issuer_count(issuers') = issuer_count(issuers) + 1
         /\ (tx' = Tx("remove_issuer", Admin, 0) /\ remove_issuer(a)) =>
              /\ \A b \in IssuerAddresses :
                   is_issuer_authorized(issuers', b) <=>
                       (b # a /\ is_issuer_authorized(issuers, b))
              /\ issuer_count(issuers') = issuer_count(issuers) - 1
    /\ (tx'.fn \notin {"add_issuer", "remove_issuer"} \/ tx'.abort # 0) =>
           issuers' = issuers

\* C24: starting from the empty registry, after any sequence of successful
\* add_issuer and remove_issuer calls is_issuer_authorized(a) is true
\* exactly for the addresses added and not removed since, and issuer_count
\* is their number; add_issuer(a) followed by remove_issuer(a) restores the
\* previous membership and count.
C24_RegistryRoundTrip == []C24_Membership /\ [][C24_Step]_vars

\* an address has been added and removed again while another stays
\* registered
C24_Witness ==
    /\ tx = Tx("remove_issuer", Admin, 0)
    /\ issuer_count(issuers) = 1

\* a successful issue_attestation(r, o) by s creates one attestation that
\* records r and s, is stamped with the clock and is Active, not revoked
C25_Recorded ==
    \A s \in IssuerAddresses, r \in Recipients, o \in 0..MaxOffset :
        (tx' = Tx("issue_attestation", s, 0) /\ issue_attestation(s, r, o)) =>
            LET id == Len(attestations') IN
            /\ is_issuer_authorized(issuers, s)
            /\ id = Len(attestations) + 1
            /\ attestations'[id].recipient = r
            /\ attestations'[id].issuer = s
            /\ attestations'[id].issuance_timestamp_ms = clock
            /\ ~is_revoked(revocations', id)
            /\ get_effective_status(id, attestations'[id], revocations', clock)
                   = "Active"

\* the new attestation is held by the recipient address
C25_HeldByRecipient ==
    \A s \in IssuerAddresses, r \in Recipients, o \in 0..MaxOffset :
        (tx' = Tx("issue_attestation", s, 0) /\ issue_attestation(s, r, o)) =>
            owners'[Len(attestations')] = r

\* what of the issuance result the ledger does deliver
C25_RecordedHolds == [][C25_Recorded]_vars

\* C25: a successful issue_attestation(recipient, expiry_offset_ms) by a
\* registered issuer I at clock time t creates one attestation that is held
\* by the recipient address, records recipient and issuer I, has issuance
\* timestamp t and is initially not revoked: Active at time t.
C25_IssuanceResult == [][C25_Recorded /\ C25_HeldByRecipient]_vars

\* every attestation has an owner entry, and no attestation is held by an
\* address other than its recorded recipient
C26_Holder ==
    /\ Len(owners) = Len(attestations)
    /\ \A id \in DOMAIN attestations :
         owners[id] # Immutable => owners[id] = attestations[id].recipient

\* no step changes the owner of an attestation that exists
C26_Step ==
    \A id \in DOMAIN owners : id \in DOMAIN owners' /\ owners'[id] = owners[id]

\* C26: once an attestation has been issued no operation available to the
\* recipient or to anyone else changes its holder; in every reachable
\* ledger state its holder is never an address different from its recorded
\* recipient.
C26_NonTransferable == []C26_Holder /\ [][C26_Step]_vars

\* an attestation exists, time has passed since its issuance and its
\* recipient has sent a transaction that names it
C26_Witness ==
    /\ Len(attestations) >= 1
    /\ clock > attestations[1].issuance_timestamp_ms
    /\ tx.fn = "revoke_attestation" /\ tx.sender = attestations[1].recipient
    /\ owners[1] = Immutable

(***************************************************************************)
(* Claims about the merge and the order of the status queries.             *)
(***************************************************************************)
\* the step is an iteration of the scan whose status query or decoding
\* failed
FailedQueryStep ==
    /\ Len(outcomes') = Len(outcomes) + 1
    /\ outcomes'[Len(outcomes')].status = Error
    /\ Len(queried') = Len(queried) + 1

\* C27: when a candidate's status query or decoding fails, the running best
\* result is replaced by an Error result only if the priority of Error is
\* strictly higher than the priority of the running best; otherwise the
\* running best is unchanged.
C27_StrictPriorityOnFailure ==
    [][FailedQueryStep =>
          IF statusPriority(Error) > statusPriority(result.status)
          THEN result'.status = Error
          ELSE result' = result]_vars

\* the request passed the validation, the enumeration succeeded with
\* exactly one address-owned record whose owner is its recipient, and the
\* status query for it fails
WebScenarioE ==
    /\ ~RejectsAddress(address)
    /\ ~listFails
    /\ Len(data) = 1
    /\ data[1].hasData /\ data[1].dataType = "moveObject"
    /\ data[1].owner # "Shared"
    /\ data[1].owner = data[1].recipient
    /\ checkOnChainStatus(data[1].objectId, inspect[data[1].objectId]).threw

\* C28: when the handler's enumeration succeeds with exactly one
\* address-owned candidate whose currentOwner is its recipient and that
\* candidate's status query fails, the handler responds with status Error.
C28_WebScenarioE ==
    (WebScenarioE /\ pc = "returned") => result.status = Error

\* the positions whose status query has been issued
Queried == { queried[k] : k \in 1..Len(queried) }

\* the positions whose status query was issued and failed
FailedAt ==
    { i \in Positions :
        OwnerMatched(data[i]) /\ QueryFails(inspect[data[i].objectId])
        /\ i \in Queried }

\* C29: a failed status query for the candidate at position i does not stop
\* the scan; every later structurally valid, owner-matched candidate still
\* gets its status query, and if one of them evaluates to Active the call
\* returns Verified.
C29_FailuresNonFatal ==
    (Done /\ ~listFails) =>
        \A i \in FailedAt :
            /\ \A j \in Positions : (j > i /\ OwnerMatched(data[j])) => j \in Queried
            /\ (\E j \in Evaluating(0) : j > i) => result.status = Verified

\* C29, amended: after a failed status query at position i every later
\* owner-matched candidate up to and including the first one that
\* evaluates to Active gets its status query, and if one of the later
\* candidates evaluates to Active the call returns Verified.
C29_FailuresNonFatalUntilVerified ==
    (Done /\ ~listFails) =>
        \A i \in FailedAt :
            /\ \A j \in Positions :
                 (j > i /\ OwnerMatched(data[j])
                  /\ \A k \in Evaluating(0) : k >= j) => j \in Queried
            /\ (\E j \in Evaluating(0) : j > i) => result.status = Verified

\* the first query failed, the second found a revoked attestation, the
\* third an active one
C29_Witness ==
    /\ Done /\ ~listFails
    /\ 1 \in FailedAt
    /\ 2 \in Evaluating(2)
    /\ 3 \in Evaluating(0)
    /\ Queried = {1, 2, 3}
    /\ result.status = Verified

\* the candidates whose status query has been issued and decoded to Active
FoundActive == Evaluating(0) \cap Queried

\* C30: in one call of verifyKycStatus, once a candidate's status query has
\* decoded to Active, no status query is issued for any candidate later in
\* the enumeration order and the call returns.
C30_ShortCircuitStopsQuerying ==
    FoundActive # {} =>
        /\ Done
        /\ \A j \in Queried : j <= SetMin(FoundActive)
        /\ queried[Len(queried)] = SetMin(FoundActive)
        /\ result.status = Verified

\* the first candidate is Active and two more owner-matched candidates
\* follow it, one of them Active as well
C30_Witness ==
    /\ Done /\ ~listFails
    /\ Len(data) = 3
    /\ \A i \in Positions : OwnerMatched(data[i])
    /\ 1 \in Evaluating(0) /\ 3 \in Evaluating(0)
    /\ queried = <<1>>

\* how many status queries position i has received
QueryCount(i) == Cardinality({ k \in 1..Len(queried) : queried[k] = i })

\* position i is structurally valid, address-owned, held by its recipient
\* and no earlier candidate in scan order evaluated to Active
Eligible(i) ==
    /\ OwnerMatched(data[i])
    /\ \A k \in Evaluating(0) : k >= i

\* C31: in one call each enumerated record receives at most one status
\* query, a failed query is never repeated, and it receives exactly one
\* when it is structurally valid, address-owned, has currentOwner equal to
\* recipient and no earlier candidate evaluated to Active.
C31_OneQueryPerCandidate ==
    /\ \A i \in Positions : QueryCount(i) <= 1
    /\ Len(queried) <= listCalls * Len(data)
    /\ (Done /\ ~listFails) =>
           \A i \in Positions : Eligible(i) => QueryCount(i) = 1

\* three eligible candidates: the first two queries fail, the third finds
\* an expired attestation
C31_Witness ==
    /\ Done /\ ~listFails
    /\ Len(data) = 3
    /\ \A i \in Positions : Eligible(i)
    /\ QueryFails(inspect[1]) /\ QueryFails(inspect[2])
    /\ 3 \in Evaluating(1)
    /\ queried = <<1, 2, 3>>

\* the enumeration with the structurally mismatched records removed
WithoutMismatches == SelectSeq(data, IsCandidate)

\* the positions that produced an outcome
WithOutcome == { outcomes[k].objectId : k \in 1..Len(outcomes) }

\* C32: a record with no content, a content kind other than moveObject, a
\* declared type other than the attestation type or a holder that is not a
\* single address produces no outcome and no status query, and the status
\* returned equals the status returned for the same enumeration with those
\* records removed (so it is never Error because of them).
C32_MismatchesSkipped ==
    /\ \A i \in Positions :
           ~IsCandidate(data[i]) => (i \notin Queried /\ i \notin WithOutcome)
    /\ (Done /\ ~listFails) =>
           result.status = verifyKycStatus(WithoutMismatches, inspect).status

\* a record of another type and a shared record precede a revoked candidate
C32_Witness ==
    /\ Done /\ ~listFails
    /\ Len(data) = 3
    /\ data[1].type # KycAttestationType /\ data[1].hasData
    /\ data[2].owner = "Shared" /\ data[2].hasData
    /\ 3 \in Evaluating(2)
    /\ result.status = Revoked
    /\ queried = <<3>>

\* the candidates, in scan order, whose outcome was status
ProducedBy(status) ==
    { outcomes[k].objectId : k \in { j \in 1..Len(outcomes) : outcomes[j].status = status } }

\* C33: when the non-Verified status returned was produced by two or more
\* candidates of equal rank, the details and the attestation block attached
\* are those of the earliest such candidate in scan order: a later
\* candidate of equal priority never replaces the running best result.
C33_FirstWriterWins ==
    (/\ Done /\ ~listFails
     /\ result.status # Verified
     /\ Cardinality(ProducedBy(result.status)) >= 2)
    => /\ result.details[2] = SetMin(ProducedBy(result.status))
       /\ Len(result.attestation) = 1 =>
              result.attestation[1].objectId = SetMin(ProducedBy(result.status))

\* three expired candidates: the first one is reported
C33_Witness ==
    /\ Done /\ ~listFails
    /\ Evaluating(1) = {1, 2, 3}
    /\ result.status = Expired
    /\ result.attestation[1].objectId = 1

\* two candidates held by another address than their recipient: the first
\* one is reported
C33_WitnessInvalid ==
    /\ Done /\ ~listFails
    /\ Len(data) = 2
    /\ \A i \in Positions : OwnerMismatched(data[i])
    /\ result.status = Invalid
    /\ result.attestation[1].objectId = 1

\* the effective status of attestation id on the ledger at time t
StatusNow(id, registry, t) == get_effective_status(id, attestations[id], registry, t)

\* C34: under a clock that never goes back and any sequence of ledger
\* operations, an attestation whose effective status is Revoked is Revoked
\* in every later state, and one whose effective status is Expired is
\* never Active again.
C34_Step ==
    /\ clock' >= clock
    /\ \A id \in 1..Len(attestations) :
          /\ id \in 1..Len(attestations')
          /\ attestations'[id] = attestations[id]
          /\ StatusNow(id, revocations, clock) = "Revoked" =>
                 get_effective_status(id, attestations'[id], revocations', clock') = "Revoked"
          /\ StatusNow(id, revocations, clock) = "Expired" =>
                 get_effective_status(id, attestations'[id], revocations', clock') # "Active"

C34_RevocationIrreversible == [][C34_Step]_vars

\* an attestation revoked before its expiry is still Revoked after the
\* expiry has passed and its issuer has left the registry
C34_Witness ==
    /\ Len(attestations) >= 1
    /\ is_revoked(revocations, 1)
    /\ revocations[1] < attestations[1].expiry_timestamp_ms
    /\ clock >= attestations[1].expiry_timestamp_ms
    /\ ~is_issuer_authorized(issuers, attestations[1].issuer)
    /\ StatusNow(1, revocations, clock) = "Revoked"

\* an attestation that expired has been revoked afterwards
C34_WitnessExpired ==
    /\ Len(attestations) >= 1
    /\ is_revoked(revocations, 1)
    /\ attestations[1].expiry_timestamp_ms # 0
    /\ revocations[1] >= attestations[1].expiry_timestamp_ms
    /\ tx.fn = "revoke_attestation" /\ tx.abort = 0

\* C40: after remove_issuer(I) has succeeded, revoke_attestation called by
\* I on an attestation that I issued and that is not yet revoked still
\* succeeds and makes its effective status Revoked: revoke_attestation
\* does not consult the IssuerRegistry.
C40_RevocationSurvivesRemoval ==
    [][\A s \in IssuerAddresses, id \in 1..MaxAttestations :
         (/\ tx'.fn = "revoke_attestation" /\ tx'.sender = s
          /\ revoke_attestation(s, id)
          /\ s = attestations[id].issuer
          /\ ~is_issuer_authorized(issuers, s)
          /\ ~is_revoked(revocations, id)) =>
             /\ tx'.abort = 0
             /\ is_revoked(revocations', id)
             /\ \A t \in ClockValues : StatusNow(id, revocations', t) = "Revoked"]_vars

\* the issuer of attestation 1 is no longer registered and has just
\* revoked it
C40_Witness ==
    /\ Len(attestations) >= 1
    /\ tx = Tx("revoke_attestation", attestations[1].issuer, 0)
    /\ ~is_issuer_authorized(issuers, attestations[1].issuer)
    /\ is_revoked(revocations, 1)
    /\ revocations[1] = clock
    /\ StatusNow(1, revocations, clock) = "Revoked"

(***************************************************************************)
(* The direct call with its argument: verifyKycStatus(address) takes a     *)
(* string and hands it to getOwnedObjects as the owner (lines 110-116).    *)
(* What the client answers for it is the environment's choice.             *)
(***************************************************************************)
\* the strings a caller may pass
SubjectStrings == { a \in RequestAddresses : a.defined }

DirectCallInit ==
    /\ DecoderIdle /\ LedgerIdle /\ CacheIdle
    /\ address \in SubjectStrings
    /\ httpStatus = 0
    /\ listFails \in BOOLEAN
    /\ \E n \in 0..MaxWebRecords : data \in Enumerations(n)
    /\ listFails => data = <<>>
    /\ inspect \in AnswersFor(data)
    /\ pc = "ready"
    /\ idx = 0
    /\ result = InitialResult
    /\ listCalls = 0
    /\ queried = <<>>
    /\ outcomes = <<>>

DirectCallSpec == DirectCallInit /\ [][Next]_vars

\* C35: verifyKycStatus called with a subject string that is not a
\* well-formed ledger address returns status Error with details that
\* identify the validation failure, and issues neither the enumeration
\* call nor any status query.
C35_MalformedSubjectRejected ==
    RejectsAddress(address) =>
        /\ listCalls = 0
        /\ queried = <<>>
        /\ Done => (result.status = Error /\ result.details[1] # "SDK Error:")

(***************************************************************************)
(* The web handler as a function of the enumeration, for a request whose   *)
(* address passed the validation: the loop of verify.ts run to its end.    *)
(***************************************************************************)
RECURSIVE WebScanFrom(_, _, _, _)
WebScanFrom(best, records, answers, i) ==
    IF i > Len(records) THEN best
    ELSE LET step == WebLoopBody(best, records[i], answers[records[i].objectId])
         IN  IF step.return THEN step.result
             ELSE WebScanFrom(step.result, records, answers, i + 1)

\* verify.ts lines 42-181: fails is the failure of getOwnedObjects
handler(fails, records, answers) ==
    IF fails THEN WebOuterCatch(ListError)
    ELSE WebScanFrom(WebInitialResult, records, answers, 1)

\* C36: for every enumeration result, its failure included, and every
\* assignment of status-query responses or failures to the candidates,
\* CodaKyc.verifyKycStatus and the web API handler, run on the same inputs
\* with a well-formed subject, return the same status.
C36_ImplementationsAgree ==
    Done => result.status = handler(listFails, data, inspect).status

\* issuer, issuance and expiry timestamps and variant of the stored status
\* as content.fields carries them
Stored(issuer, issuance, expiry, variant) ==
    [ issuer |-> issuer, issuance_timestamp_ms |-> issuance,
      expiry_timestamp_ms |-> expiry, statusVariant |-> variant ]

\* the values put in their place: each field changed alone, and all four
\* changed together
StoredFields ==
    { Stored("0x2", 1, 0, "undefined"), Stored("0x1", 2, 0, "undefined"),
      Stored("0x1", 1, 2, "undefined"), Stored("0x1", 1, 0, "Active"),
      Stored("0x1", 1, 0, "Revoked"), Stored("0x2", 2, 2, "Active") }

\* the enumeration records with those four fields of record i replaced
WithStoredFields(records, i, f) ==
    [ records EXCEPT ![i] =
        [ @ EXCEPT !.issuer = f.issuer,
                   !.issuance_timestamp_ms = f.issuance_timestamp_ms,
                   !.expiry_timestamp_ms = f.expiry_timestamp_ms,
                   !.statusVariant = f.statusVariant ] ]

\* the objectId of the attestation block of a result, 0 when it has none
AttestationId(r) == IF Len(r.attestation) = 1 THEN r.attestation[1].objectId ELSE 0

\* C37: two calls of verifyKycStatus whose enumerations differ only in a
\* record's stored status flag (statusRaw), issuer, issuance timestamp or
\* expiry timestamp, and whose status-query responses are identical,
\* return the same status and the same attestation.objectId.
C37_VerdictIgnoresStoredFields ==
    (Done /\ ~listFails) =>
        \A i \in Positions, f \in StoredFields :
            LET other == verifyKycStatus(WithStoredFields(data, i, f), inspect)
            IN  /\ other.status = result.status
                /\ AttestationId(other) = AttestationId(result)

\* the call returned Verified for a record whose stored flag reads Revoked,
\* and the same call on a record that differs in all four fields returns
\* the same attestation with the other field values in it
C37_Witness ==
    /\ Done /\ ~listFails
    /\ Len(data) >= 1
    /\ result.status = Verified
    /\ result.attestation[1].statusRaw = "Revoked"
    /\ LET f == Stored("0x2", 2, 2, "Active")
           other == verifyKycStatus(WithStoredFields(data, AttestationId(result), f), inspect)
       IN  /\ other.status = Verified
           /\ other.attestation[1].statusRaw = "Active"
           /\ other.attestation[1].issuer = "0x2"
           /\ other.attestation[1].expiresAt = <<2>>
           /\ other.attestation # result.attestation

\* C38: when the enumeration succeeds and contains at least one
\* structurally valid, address-owned record, the status returned is never
\* NotVerified: NotVerified is returned only when the enumeration is empty
\* or every record in it was skipped as structurally mismatched.
C38_NotVerifiedMeansNoCandidate ==
    (Done /\ ~listFails) =>
        (result.status = NotVerified <=> \A i \in Positions : ~IsCandidate(data[i]))

\* a single candidate held by another address than its recipient, after
\* two skipped records: the status is Invalid
C38_Witness ==
    /\ Done /\ ~listFails
    /\ Len(data) = 3
    /\ ~IsCandidate(data[1]) /\ ~IsCandidate(data[2])
    /\ OwnerMismatched(data[3])
    /\ result.status = Invalid

\* every record was skipped: the status is NotVerified
C38_WitnessAllSkipped ==
    /\ Done /\ ~listFails
    /\ Len(data) = 3
    /\ \A i \in Positions : ~IsCandidate(data[i])
    /\ result.status = NotVerified

\* C39: provided the enumeration for subject s returns only records whose
\* current holder is s, every Verified result has attestation.recipient
\* and attestation.currentOwner both equal to s: an attestation whose
\* recipient is another address never makes s Verified.
C39_VerifiedBoundToSubject ==
    (/\ Done
     /\ \A i \in Positions : data[i].owner \in {Subject, "Shared"}
     /\ result.status = Verified)
    => /\ Len(result.attestation) = 1
       /\ result.attestation[1].recipient = Subject
       /\ result.attestation[1].currentOwner = Subject
       /\ data[result.attestation[1].objectId].owner = Subject
       /\ data[result.attestation[1].objectId].recipient = Subject

\* an attestation issued to another address and held by the subject, with
\* an Active answer, precedes the subject's own attestation
C39_Witness ==
    /\ Done /\ ~listFails
    /\ Len(data) = 2
    /\ data[1].owner = Subject /\ data[1].recipient = Stranger
    /\ IsCandidate(data[1])
    /\ inspect[1] = TagReply(0)
    /\ 2 \in Evaluating(0)
    /\ result.status = Verified
    /\ result.attestation[1].objectId = 2

====
